---- MODULE Spec2Model ----
(***************************************************************************)
(* Model of the request/response adaptation layer of                       *)
(* utils/model_wrappers/langchain_llms.py: the SambaStudio client (three   *)
(* wire variants selected by substring tests on the configured URL) and    *)
(* the SambaNovaCloud client (one wire format).                            *)
(*                                                                         *)
(* A URL is a sequence of tokens ("api", "/", "generic", ...); Python's    *)
(* `sub in url` is containment of a contiguous token sequence.  A Python   *)
(* value is a record with a type tag; a dict is a function from keys to    *)
(* values.  Text is a TLA+ string, concatenated with \o.                   *)
(***************************************************************************)
EXTENDS Integers, Sequences, FiniteSets, TLC

(***************************************************************************)
(* Bounds of the model.                                                    *)
(***************************************************************************)
MaxCalls == 2
MaxUrlParts == 2
MaxEvents == 4

(***************************************************************************)
(* Python values.                                                          *)
(***************************************************************************)
PyNone == [tag |-> "NoneType", b |-> FALSE, i |-> 0, s |-> "", l |-> <<>>]
PyBool(x) == [tag |-> "bool", b |-> x, i |-> 0, s |-> "", l |-> <<>>]
PyInt(n) == [tag |-> "int", b |-> FALSE, i |-> n, s |-> "", l |-> <<>>]
PyStr(t) == [tag |-> "str", b |-> FALSE, i |-> 0, s |-> t, l |-> <<>>]
PyList(xs) == [tag |-> "list", b |-> FALSE, i |-> 0, s |-> "", l |-> xs]

\* type(v).__name__
TypeName(v) == v.tag

Digit(d) == CASE d = 0 -> "0" [] d = 1 -> "1" [] d = 2 -> "2" [] d = 3 -> "3"
              [] d = 4 -> "4" [] d = 5 -> "5" [] d = 6 -> "6" [] d = 7 -> "7"
              [] d = 8 -> "8" [] OTHER -> "9"

RECURSIVE IntStr(_)
IntStr(n) == IF n < 10 THEN Digit(n) ELSE IntStr(n \div 10) \o Digit(n % 10)

\* repr() of a str element of a list
StrRepr(t) == IF t = "\n" THEN "'\\n'" ELSE "'" \o t \o "'"

RECURSIVE ReprItems(_)
ReprItems(xs) ==
    IF xs = <<>> THEN ""
    ELSE IF Len(xs) = 1 THEN StrRepr(xs[1])
    ELSE StrRepr(xs[1]) \o ", " \o ReprItems(Tail(xs))

\* str(v)
PyStrOf(v) ==
    CASE v.tag = "NoneType" -> "None"
      [] v.tag = "bool" -> (IF v.b THEN "True" ELSE "False")
      [] v.tag = "int" -> IntStr(v.i)
      [] v.tag = "str" -> v.s
      [] OTHER -> "[" \o ReprItems(v.l) \o "]"

(***************************************************************************)
(* Python dicts.                                                           *)
(***************************************************************************)
EmptyDict == <<>>
Has(d, k) == k \in DOMAIN d
DictGet(d, k, default) == IF k \in DOMAIN d THEN d[k] ELSE default
DictPut(d, k, v) == [x \in (DOMAIN d) \cup {k} |-> IF x = k THEN v ELSE d[x]]
DictPop(d, k) == [x \in (DOMAIN d) \ {k} |-> d[x]]
\* d[new] = d.pop(old)
DictRename(d, old, new) == DictPut(DictPop(d, old), new, d[old])

(***************************************************************************)
(* URLs as token sequences.                                                *)
(***************************************************************************)
\* Python `sub in url`
Contains(sub, url) ==
    \E i \in 1..(Len(url) - Len(sub) + 1) : SubSeq(url, i, i + Len(sub) - 1) = sub

StartsWith(sub, url) == Len(sub) <= Len(url) /\ SubSeq(url, 1, Len(sub)) = sub

\* url.split(sep): the pieces between the non-overlapping occurrences of sep
RECURSIVE SplitAcc(_, _, _)
SplitAcc(url, sep, cur) ==
    IF url = <<>> THEN <<cur>>
    ELSE IF StartsWith(sep, url)
         THEN <<cur>> \o SplitAcc(SubSeq(url, Len(sep) + 1, Len(url)), sep, <<>>)
         ELSE SplitAcc(Tail(url), sep, cur \o <<Head(url)>>)

Split(url, sep) == SplitAcc(url, sep, <<>>)

\* sep.join(parts)
RECURSIVE Join(_, _)
Join(sep, parts) ==
    IF Len(parts) = 1 THEN parts[1]
    ELSE parts[1] \o sep \o Join(sep, Tail(parts))

\* url.replace(old, new)
Replace(url, old, new) == Join(new, Split(url, old))

OPENAI == <<"openai">>
GENERIC_V2 == <<"api", "/", "v2", "/", "predict", "/", "generic">>
GENERIC_V1 == <<"api", "/", "predict", "/", "generic">>

NoUrl == <<>>

\* SambaStudio._get_sambastudio_urls: [ok, base_url, stream_url]
GetSambastudioUrls(url) ==
    IF Contains(OPENAI, url)
    THEN [ok |-> TRUE, base_url |-> url, stream_url |-> url]
    ELSE IF Contains(<<"stream">>, url)
    THEN [ok |-> TRUE, base_url |-> Replace(url, <<"stream", "/">>, <<>>),
          stream_url |-> url]
    ELSE IF Contains(<<"generic">>, url)
    THEN [ok |-> TRUE, base_url |-> url,
          stream_url |-> Join(<<"generic", "/", "stream">>, Split(url, <<"generic">>))]
    ELSE [ok |-> FALSE, base_url |-> NoUrl, stream_url |-> NoUrl]

\* the variant every later stage derives from sambastudio_url
Variant(url) ==
    IF Contains(OPENAI, url) THEN "openai"
    ELSE IF Contains(GENERIC_V2, url) THEN "generic_v2"
    ELSE IF Contains(GENERIC_V1, url) THEN "generic_v1"
    ELSE "unsupported"

\* the URL tests of each stage, in the order the stage makes them:
\* _get_tuning_params (lines 215, 226, 235)
TuningVariant(url) ==
    IF Contains(OPENAI, url) THEN "openai"
    ELSE IF Contains(GENERIC_V2, url) THEN "generic_v2"
    ELSE IF Contains(GENERIC_V1, url) THEN "generic_v1"
    ELSE "unsupported"

\* _handle_request (lines 280, 291, 309)
RequestVariant(url) ==
    IF Contains(OPENAI, url) THEN "openai"
    ELSE IF Contains(GENERIC_V2, url) THEN "generic_v2"
    ELSE IF Contains(GENERIC_V1, url) THEN "generic_v1"
    ELSE "unsupported"

\* _process_response (lines 380, 383, 386)
ResponseVariant(url) ==
    IF Contains(OPENAI, url) THEN "openai"
    ELSE IF Contains(GENERIC_V2, url) THEN "generic_v2"
    ELSE IF Contains(GENERIC_V1, url) THEN "generic_v1"
    ELSE "unsupported"

\* mutant of StreamVariant: generic v1 tested before generic v2
StreamVariantV1First(url) ==
    IF Contains(OPENAI, url) THEN "openai"
    ELSE IF Contains(GENERIC_V1, url) THEN "generic_v1"
    ELSE IF Contains(GENERIC_V2, url) THEN "generic_v2"
    ELSE "unsupported"

\* _process_stream_response (lines 415, 455, 470)
StreamVariant(url) ==
    IF Contains(OPENAI, url) THEN "openai"
    ELSE IF Contains(GENERIC_V2, url) THEN "generic_v2"
    ELSE IF Contains(GENERIC_V1, url) THEN "generic_v1"
    ELSE "unsupported"

(***************************************************************************)
(* SambaStudio._get_tuning_params.                                         *)
(***************************************************************************)
\* `self.model_kwargs or {}`: the client's own dict unless it is empty
Aliased(kwargs) == DOMAIN kwargs # {}

\* lines 211-213: configured stop_sequences + call-time stop, stored if non-empty
MergeStop(mk, stop_) ==
    LET merged == DictGet(mk, "stop_sequences", PyList(<<>>)).l \o stop_
    IN  IF Len(merged) > 0 THEN DictPut(mk, "stop_sequences", PyList(merged)) ELSE mk

\* lines 217-224
RenameOpenAI(mk) ==
    LET a == IF Has(mk, "select_expert") THEN DictRename(mk, "select_expert", "model") ELSE mk
        b == IF Has(a, "max_tokens_to_generate")
             THEN DictRename(a, "max_tokens_to_generate", "max_tokens") ELSE a
    IN  IF Has(b, "process_prompt") THEN DictPop(b, "process_prompt") ELSE b

RenameGenericModelOnly(mk) ==
    IF Has(mk, "model") THEN DictRename(mk, "model", "select_expert") ELSE mk

\* lines 228-233 and 237-242
RenameGeneric(mk) ==
    LET a == IF Has(mk, "model") THEN DictRename(mk, "model", "select_expert") ELSE mk
    IN  IF Has(a, "max_tokens") THEN DictRename(a, "max_tokens", "max_tokens_to_generate") ELSE a

\* lines 244-247
Envelope(v) == [type |-> TypeName(v), value |-> PyStrOf(v)]
EnvelopeScalars(mk) ==
    [k \in DOMAIN mk |-> IF mk[k].tag = "list" THEN mk[k] ELSE Envelope(mk[k])]
EnvelopeAll(mk) == [k \in DOMAIN mk |-> Envelope(mk[k])]

\* the dict _model_kwargs after the call (the same object as self.model_kwargs
\* when Aliased)
TunedKwargs(url, kwargs, stop_) ==
    LET mk == MergeStop(kwargs, stop_)
        v == TuningVariant(url)
    IN  IF v = "openai" THEN RenameOpenAI(mk)
        ELSE IF v \in {"generic_v2", "generic_v1"} THEN RenameGeneric(mk)
        ELSE mk

\* [raised, params, kwargs]: whether ValueError was raised, the returned
\* tuning_params, and self.model_kwargs after the call
GetTuningParams(url, kwargs, stop_) ==
    LET mk == TunedKwargs(url, kwargs, stop_)
        v == TuningVariant(url)
    IN  [raised |-> v = "unsupported",
         params |-> IF v = "generic_v1" THEN EnvelopeAll(mk)
                    ELSE IF v = "unsupported" THEN EmptyDict
                    ELSE mk,
         kwargs |-> IF Aliased(kwargs) THEN mk ELSE kwargs]

(***************************************************************************)
(* Request building: SambaStudio._handle_request lines 275-339 and         *)
(* SambaNovaCloud._handle_nlp_predict_stream lines 647-665.                *)
(***************************************************************************)
\* Python truthiness of a value
Truthy(v) ==
    CASE v.tag = "NoneType" -> FALSE
      [] v.tag = "bool" -> v.b
      [] v.tag = "int" -> v.i # 0
      [] v.tag = "str" -> v.s # ""
      [] OTHER -> v.l # <<>>

\* mutant of DropNone: nothing removed
DropNothing(d) == d

\* {key: value for key, value in d.items() if value is not None}
DropNone(d) == [k \in {x \in DOMAIN d : d[x].tag # "NoneType"} |-> d[k]]

\* json.dumps of the conversation object, against the raw prompt
ConversationPrompt(p) == [conversation_id |-> "sambaverse-conversation-id", content |-> p]
RawPrompt(p) == [conversation_id |-> "", content |-> p]

UserMessage(p) == [role |-> "user", content |-> p]

StudioBodyEnvelopeTruthy(v, params, p, streaming_) ==
    IF v = "openai"
    THEN [kind |-> "openai", messages |-> <<UserMessage(p)>>, stream |-> streaming_,
          prompt |-> RawPrompt(p), params |-> DropNone(params)]
    ELSE IF v = "generic_v2"
    THEN [kind |-> "items", messages |-> <<>>, stream |-> streaming_,
          prompt |-> IF Truthy(DictGet(params, "process_prompt", PyBool(FALSE)))
                     THEN ConversationPrompt(p) ELSE RawPrompt(p),
          params |-> DropNone(params)]
    ELSE [kind |-> IF streaming_ THEN "instance" ELSE "instances",
          messages |-> <<>>, stream |-> streaming_,
          prompt |-> IF Has(params, "process_prompt")
                     THEN ConversationPrompt(p) ELSE RawPrompt(p),
          params |-> params]

\* lines 281-333: the JSON body for a supported variant
StudioBody(v, params, p, streaming_) ==
    IF v = "openai"
    THEN [kind |-> "openai", messages |-> <<UserMessage(p)>>, stream |-> streaming_,
          prompt |-> RawPrompt(p), params |-> DropNone(params)]
    ELSE IF v = "generic_v2"
    THEN [kind |-> "items", messages |-> <<>>, stream |-> streaming_,
          prompt |-> IF Truthy(DictGet(params, "process_prompt", PyBool(FALSE)))
                     THEN ConversationPrompt(p) ELSE RawPrompt(p),
          params |-> DropNone(params)]
    ELSE [kind |-> IF streaming_ THEN "instance" ELSE "instances",
          messages |-> <<>>, stream |-> streaming_,
          prompt |-> IF Has(params, "process_prompt")
                        /\ params["process_prompt"].value = "True"
                     THEN ConversationPrompt(p) ELSE RawPrompt(p),
          params |-> params]

\* a prompt: its text and what json.loads makes of the text: a JSON value, of
\* which the kind and, for an array, the items are kept, or a failure
Parsed(kind_, items_) == [ok |-> TRUE, kind |-> kind_, items |-> items_]
NotParsed == [ok |-> FALSE, kind |-> "none", items |-> <<>>]

NoPrompt == [text |-> "", parsed |-> NotParsed]
PlainPrompt == [text |-> "prompt", parsed |-> NotParsed]
MessagesPrompt ==
    [text |-> "[{\"role\": \"system\", \"content\": \"Be brief\"}, "
                \o "{\"role\": \"user\", \"content\": \"Hi\"}]",
     parsed |-> Parsed("array", <<[role |-> "system", content |-> "Be brief"],
                                  UserMessage("Hi")>>)]
NumberPrompt == [text |-> "42", parsed |-> Parsed("number", <<>>)]

Prompts == {PlainPrompt, MessagesPrompt, NumberPrompt}

\* json.loads(prompt)
JsonLoads(p) == p.parsed

\* lines 647-650: the parsed prompt, or the prompt as one user message when
\* json.loads raises; [kind, items] of the JSON value sent as messages
FormattedPrompt(p) ==
    IF JsonLoads(p).ok
    THEN [kind |-> JsonLoads(p).kind, items |-> JsonLoads(p).items]
    ELSE [kind |-> "array", items |-> <<UserMessage(p.text)>>]

\* `if not stop: stop = self.stop_tokens` (lines 653-654)
CloudStop(stop_, stop_tokens_) == IF stop_ = <<>> THEN stop_tokens_ ELSE stop_

\* lines 655-665: the JSON body of the cloud request (temperature and top_p are
\* copied from the client like max_tokens, model and top_k)
CloudBody(stop_, stop_tokens_, stream_api_, p) ==
    [kind |-> "cloud", messages |-> FormattedPrompt(p), stream |-> stream_api_,
     stream_options |-> [include_usage |-> TRUE], prompt |-> RawPrompt(p.text),
     params |-> ("stop" :> PyList(CloudStop(stop_, stop_tokens_)))
                @@ ("max_tokens" :> PyInt(1024)) @@ ("model" :> PyStr("llama3-8b"))
                @@ ("top_k" :> PyInt(1))]

NoRequest == [url |-> NoUrl, body |-> [kind |-> "none"]]

(***************************************************************************)
(* Transport payloads.  An SSE event is [event, data]; a line of a         *)
(* newline-delimited body is a data payload alone.  A payload is the text  *)
(* "[DONE]", text that is not JSON, the empty line, or a JSON object       *)
(* described by the members the decoders read.                             *)
(***************************************************************************)
NoKey == "<no key>"

Json(error_, usage_, choices_, finish_, content_, shape_, token_) ==
    [raw |-> "json", error |-> error_, usage |-> usage_, choices |-> choices_,
     finish_reason |-> finish_, content |-> content_, shape |-> shape_, token |-> token_]

NotJson(raw_) ==
    [raw |-> raw_, error |-> "absent", usage |-> "absent", choices |-> "absent",
     finish_reason |-> "absent", content |-> NoKey, shape |-> "none", token |-> NoKey]

DONE == NotJson("[DONE]")
Garbage == NotJson("not json")
EmptyLine == NotJson("")

\* {"choices":[{"delta":{"content":t},"finish_reason":null}]}
ContentChunk(t) == Json("absent", "absent", "one", "null", t, "chat", NoKey)
\* {"choices":[{"delta":{},"finish_reason":"stop"}],"usage":{...}}
UsageChunk == Json("absent", "stats", "one", "stop", NoKey, "chat", NoKey)
\* {"choices":[{"delta":{},"finish_reason":"stop"}]}
FinishChunk == Json("absent", "absent", "one", "stop", NoKey, "chat", NoKey)
\* {"choices":[{"delta":{"content":t},"finish_reason":"stop"}]}
FinishWithContent(t) == Json("absent", "absent", "one", "stop", t, "chat", NoKey)
\* {"choices":[{"delta":{},"finish_reason":null}]}
NoContentChunk == Json("absent", "absent", "one", "null", NoKey, "chat", NoKey)
\* {"choices":[]}
NoChoicesChunk == Json("absent", "absent", "empty", "absent", NoKey, "chat", NoKey)
\* {"error":"overloaded"}
ErrorChunk == Json("truthy", "absent", "absent", "absent", NoKey, "chat", NoKey)
\* {"error_event":"rate limited"}
RateLimited == Json("absent", "absent", "absent", "absent", NoKey, "other", NoKey)
\* {"result":{"items":[{"value":{"stream_token":t}}]}}
V2Line(t) == Json("absent", "absent", "absent", "absent", NoKey, "v2", t)
\* {"result":{"responses":[{"stream_token":t}]}}
V1Line(t) == Json("absent", "absent", "absent", "absent", NoKey, "v1", t)

Message(d) == [event |-> "message", data |-> d]
ErrorEvent(d) == [event |-> "error_event", data |-> d]

Texts == {"Hi", " there"}

SSEEvents ==
    {Message(ContentChunk(t)) : t \in Texts}
    \cup {Message(d) : d \in {UsageChunk, FinishChunk, FinishWithContent("!"),
                              NoContentChunk, NoChoicesChunk, ErrorChunk, DONE, Garbage}}
    \cup {ErrorEvent(d) : d \in {ContentChunk("Hi"), RateLimited}}

Lines ==
    {Message(V2Line(t)) : t \in Texts} \cup {Message(V1Line(t)) : t \in Texts}
    \cup {Message(EmptyLine), Message(Garbage)}

(***************************************************************************)
(* Stream decoders: the outcome of one loop iteration on one event.        *)
(* [act |-> "yield", text], [act |-> "skip"] or [act |-> "raise", type].   *)
(***************************************************************************)
Yield(t) == [act |-> "yield", text |-> t, type |-> ""]
Skip == [act |-> "skip", text |-> "", type |-> ""]
Raise(ty) == [act |-> "raise", text |-> "", type |-> ty]

\* mutant of DecodeOpenAI: a missing delta content read as the empty string
DecodeOpenAIDefaultContent(e) ==
    LET d == e.data
    IN  IF e.event = "error_event" THEN Raise("RuntimeError")
        ELSE IF d.raw = "[DONE]" THEN Skip
        ELSE IF d.raw # "json" THEN Raise("RuntimeError")
        ELSE IF d.error = "truthy" THEN Raise("RuntimeError")
        ELSE IF d.choices = "absent" THEN Raise("RuntimeError")
        ELSE IF d.choices = "empty" THEN Yield("")
        ELSE IF d.content = NoKey THEN Yield("")
        ELSE Yield(d.content)

\* SambaStudio._process_stream_response lines 417-452
DecodeOpenAI(e) ==
    LET d == e.data
    IN  IF e.event = "error_event" THEN Raise("RuntimeError")
        ELSE IF d.raw = "[DONE]" THEN Skip
        ELSE IF d.raw # "json" THEN Raise("RuntimeError")
        ELSE IF d.error = "truthy" THEN Raise("RuntimeError")
        ELSE IF d.choices = "absent" THEN Raise("RuntimeError")
        ELSE IF d.choices = "empty" THEN Yield("")
        ELSE IF d.content = NoKey THEN Raise("RuntimeError")
        ELSE Yield(d.content)

\* SambaStudio._process_stream_response lines 456-467
DecodeV2(e) ==
    LET d == e.data
    IN  IF d.raw # "json" \/ d.shape # "v2" THEN Raise("RuntimeError")
        ELSE Yield(d.token)

\* SambaStudio._process_stream_response lines 471-482
DecodeV1(e) ==
    LET d == e.data
    IN  IF d.raw # "json" \/ d.shape # "v1" THEN Raise("RuntimeError")
        ELSE Yield(d.token)

\* mutant of DecodeCloud: the finish_reason test of line 707 left out
DecodeCloudIgnoringFinishReason(e) ==
    LET d == e.data
    IN  IF d.raw = "[DONE]" THEN Skip
        ELSE IF d.raw # "json" THEN Raise("Exception")
        ELSE IF d.error = "truthy" THEN Raise("Exception")
        ELSE IF d.usage = "stats" THEN Skip
        ELSE IF d.choices # "one" THEN Raise("Exception")
        ELSE IF d.content = NoKey THEN Raise("Exception")
        ELSE Yield(d.content)

\* SambaNovaCloud._handle_nlp_predict_stream lines 683-712; event == "error_event"
\* only sets close_conn, and the chunk dict built at 685 has no 'error' key
DecodeCloud(e) ==
    LET d == e.data
    IN  IF d.raw = "[DONE]" THEN Skip
        ELSE IF d.raw # "json" THEN Raise("Exception")
        ELSE IF d.error = "truthy" THEN Raise("Exception")
        ELSE IF d.usage = "stats" THEN Skip
        ELSE IF d.choices # "one" THEN Raise("Exception")
        ELSE IF d.finish_reason = "absent" THEN Raise("Exception")
        ELSE IF d.finish_reason # "null" THEN Skip
        ELSE IF d.content = NoKey THEN Raise("Exception")
        ELSE Yield(d.content)

Decode(v, e) ==
    CASE v = "openai" -> DecodeOpenAI(e)
      [] v = "generic_v2" -> DecodeV2(e)
      [] v = "generic_v1" -> DecodeV1(e)
      [] OTHER -> DecodeCloud(e)

EventsFor(v) == IF v \in {"openai", "cloud"} THEN SSEEvents ELSE Lines

(***************************************************************************)
(* Non-streaming response: SambaStudio._process_response.                  *)
(***************************************************************************)
Body(shape_, text_) == [raw |-> "json", shape |-> shape_, completion |-> text_]
BadBody == [raw |-> "not json", shape |-> "none", completion |-> ""]
NoBody == [raw |-> "", shape |-> "none", completion |-> ""]

Bodies == {Body(sh, "Hi there") : sh \in {"openai", "generic_v2", "generic_v1"}} \cup {BadBody}

\* lines 371-393: [type, completion]; type "" when the completion is returned
ProcessResponse(v, body_) ==
    IF body_.raw # "json" THEN [type |-> "RuntimeError", completion |-> ""]
    ELSE IF v = "unsupported" THEN [type |-> "ValueError", completion |-> ""]
    ELSE IF body_.shape # v THEN [type |-> "KeyError", completion |-> ""]
    ELSE [type |-> "", completion |-> body_.completion]

(***************************************************************************)
(* State.                                                                  *)
(***************************************************************************)
VARIABLES
    client,          \* "SambaStudio" or "SambaNovaCloud"
    sambastudio_url, \* SambaStudio.sambastudio_url
    base_url,        \* SambaStudio.base_url
    streaming_url,   \* SambaStudio.streaming_url
    streaming,       \* SambaStudio.streaming
    model_kwargs,    \* SambaStudio.model_kwargs
    configured,      \* the model_kwargs given to __init__
    stop_tokens,     \* SambaNovaCloud.stop_tokens
    stream_api,      \* SambaNovaCloud.stream_api
    pc,              \* "new", "rejected", "idle", then the position of the call
    calls,           \* calls started on this client
    mode,            \* "call" (_call), "stream" (_stream) or "params" (_get_tuning_params)
    stop,            \* the stop argument of the call
    prompt,          \* the prompt argument of the call
    run_manager,     \* whether a run_manager was passed
    tuning_params,   \* what _get_tuning_params returned
    request,         \* the POST made: url and JSON body
    sessions,        \* requests.Session objects created by the calls on this client
    posts,           \* every POST issued: [call, session]
    status_code,     \* response.status_code
    trace,           \* events or lines read from the response so far
    chunk,           \* the GenerationChunk text in hand
    callbacks,       \* texts passed to run_manager.on_llm_new_token
    delivered,       \* chunk texts yielded by _stream to its consumer
    body,            \* the non-streaming response body _process_response read
    completion,      \* the local `completion` of the buffered call
    returned,        \* what the call returned: [set, text]
    error            \* the exception that reached the caller: [type, origin, at]

config == <<client, sambastudio_url, base_url, streaming_url, streaming, configured,
            stop_tokens, stream_api>>
callvars == <<mode, stop, prompt, run_manager, tuning_params, request, status_code, trace, chunk,
              callbacks, delivered, body, completion, returned, error>>
vars == <<config, model_kwargs, pc, calls, sessions, posts, callvars>>

NoError == [type |-> "", origin |-> "", at |-> ""]
Err(ty, origin_, at_) == [type |-> ty, origin |-> origin_, at |-> at_]
NotReturned == [set |-> FALSE, text |-> ""]
Returned(t) == [set |-> TRUE, text |-> t]

\* the protocol variant in play for the client
Proto == IF client = "SambaNovaCloud" THEN "cloud" ELSE Variant(sambastudio_url)

\* the decoder a streamed response is read with
StreamProto ==
    IF client = "SambaNovaCloud" THEN "cloud" ELSE StreamVariant(sambastudio_url)

(***************************************************************************)
(* Inputs.                                                                 *)
(***************************************************************************)
Host == <<"https:", "/", "/", "host">>

UrlChunks ==
    { <<"/">> \o GENERIC_V1, <<"/">> \o GENERIC_V2, <<"/", "openai">>, <<"/", "generic">>,
      <<"/", "stream">>, <<"/", "v1">>, <<"/">> }

RECURSIVE UrlTails(_)
UrlTails(n) ==
    IF n = 0 THEN {<<>>}
    ELSE UrlTails(n - 1) \cup {t \o c : t \in UrlTails(n - 1), c \in UrlChunks}

\* every URL of at most MaxUrlParts path chunks
Urls == {Host \o t : t \in UrlTails(MaxUrlParts)}

\* one URL of each wire variant, and one only _get_sambastudio_urls accepts
UrlOpenAI == Host \o <<"/", "openai", "/", "v1">>
UrlV2 == Host \o <<"/">> \o GENERIC_V2 \o <<"/", "v1">>
UrlV1 == Host \o <<"/">> \o GENERIC_V1 \o <<"/", "v1">>
UrlGenericOnly == Host \o <<"/", "generic", "/", "v1">>
VariantUrls == {UrlOpenAI, UrlV2, UrlV1}

\* URLs with the marks of two variants
UrlOpenAIAndV2 == Host \o <<"/", "openai", "/">> \o GENERIC_V2
UrlV2AndV1 == Host \o <<"/">> \o GENERIC_V2 \o <<"/">> \o GENERIC_V1
MixedUrls == {UrlOpenAIAndV2, UrlV2AndV1}

Optional(k, vals) == {EmptyDict} \cup {k :> v : v \in vals}

KwargsBags ==
    { a @@ b @@ c @@ d @@ e :
        a \in Optional("stop_sequences", {PyList(<<>>), PyList(<<"<eot>">>)}),
        b \in Optional("model", {PyStr("llama")}) \cup Optional("select_expert", {PyStr("llama")}),
        c \in Optional("max_tokens", {PyInt(128)})
              \cup Optional("max_tokens_to_generate", {PyInt(128)}),
        d \in Optional("process_prompt", {PyBool(TRUE), PyBool(FALSE)}),
        e \in Optional("temperature", {PyNone, PyInt(1)}) }

EotBag == "stop_sequences" :> PyList(<<"<eot>">>)
SmallBags == {EmptyDict, EotBag}

StopArgs == {<<>>, <<"\n">>, <<"<eot>">>}

StatusCodes == {200, 204, 500}

TypeOK ==
    /\ client \in {"SambaStudio", "SambaNovaCloud"}
    /\ pc \in {"new", "rejected", "idle", "request", "response", "decoding", "callback",
               "yield", "ended", "failed"}
    /\ calls \in 0..(MaxCalls + 1)
    /\ mode \in {"none", "params", "call", "stream"}
    /\ streaming \in BOOLEAN /\ run_manager \in BOOLEAN /\ stream_api \in BOOLEAN
    /\ Len(trace) <= MaxEvents + 1
    /\ sessions \in 0..MaxCalls
    /\ prompt \in Prompts \cup {NoPrompt}
    /\ posts \in Seq([call : 1..MaxCalls, session : 1..MaxCalls])

(***************************************************************************)
(* Initial states: a client about to be constructed.                       *)
(***************************************************************************)
NoCall ==
    /\ mode = "none" /\ stop = <<>> /\ prompt = NoPrompt /\ run_manager = FALSE
    /\ tuning_params = EmptyDict /\ request = NoRequest /\ status_code = 0
    /\ trace = <<>> /\ chunk = "" /\ callbacks = <<>> /\ delivered = <<>>
    /\ body = NoBody /\ completion = "" /\ returned = NotReturned /\ error = NoError

InitStudio(urls, bags, flags) ==
    /\ client = "SambaStudio"
    /\ sambastudio_url \in urls
    /\ configured \in bags
    /\ streaming \in flags
    /\ stop_tokens = <<>> /\ stream_api = TRUE

InitCloudWith(flags) ==
    /\ client = "SambaNovaCloud"
    /\ sambastudio_url = NoUrl /\ configured = EmptyDict /\ streaming = FALSE
    /\ stop_tokens = <<"<|eot_id|>">>
    /\ stream_api \in flags

InitCloud == InitCloudWith({TRUE})

InitRest ==
    /\ model_kwargs = configured
    /\ base_url = NoUrl /\ streaming_url = NoUrl
    /\ pc = "new" /\ calls = 0
    /\ sessions = 0 /\ posts = <<>>
    /\ NoCall

Init ==
    /\ \/ InitStudio(VariantUrls \cup MixedUrls \cup {UrlGenericOnly}, {EotBag}, BOOLEAN)
       \/ InitCloud
    /\ InitRest

InitMap == InitStudio(VariantUrls, KwargsBags, {FALSE}) /\ InitRest

InitUrl == InitStudio(Urls, SmallBags, {FALSE}) /\ InitRest

(***************************************************************************)
(* Construction.                                                           *)
(***************************************************************************)
\* SambaStudio.__init__ (lines 152-164) and SambaNovaCloud.validate_environment
Construct ==
    /\ pc = "new"
    /\ IF client = "SambaStudio"
       THEN LET r == GetSambastudioUrls(sambastudio_url)
            IN  /\ base_url' = r.base_url
                /\ streaming_url' = r.stream_url
                /\ pc' = IF r.ok THEN "idle" ELSE "rejected"
                /\ error' = IF r.ok THEN NoError
                            ELSE Err("ValueError", "ValueError", "construct")
       ELSE /\ pc' = "idle"
            /\ UNCHANGED <<base_url, streaming_url, error>>
    /\ UNCHANGED <<client, sambastudio_url, streaming, configured, stop_tokens, stream_api,
                   model_kwargs, calls, sessions, posts, mode, stop, prompt, run_manager,
                   tuning_params, request, status_code, trace, chunk, callbacks, delivered,
                   body, completion, returned>>

(***************************************************************************)
(* A direct call of SambaStudio._get_tuning_params(stop).                  *)
(***************************************************************************)
TuningCall ==
    /\ pc = "idle" /\ client = "SambaStudio" /\ calls < MaxCalls
    /\ \E s \in StopArgs :
         LET r == GetTuningParams(sambastudio_url, model_kwargs, s)
         IN  /\ stop' = s
             /\ tuning_params' = r.params
             /\ model_kwargs' = r.kwargs
             /\ error' = IF r.raised THEN Err("ValueError", "ValueError", "params")
                         ELSE NoError
    /\ mode' = "params"
    /\ calls' = calls + 1
    /\ UNCHANGED <<config, pc, sessions, posts, prompt, run_manager, request, status_code,
                   trace, chunk, callbacks, delivered, body, completion, returned>>

(***************************************************************************)
(* One completion call: _call or _stream of either client.                 *)
(***************************************************************************)
\* mutant of Surfaced: the exception is swallowed
Swallowed(ty) == ""

\* what the caller sees of an exception of type ty raised below _stream:
\* SambaNovaCloud._stream (735-737) and _call (783-785) re-raise as ValueError
Surfaced(ty) == IF client = "SambaNovaCloud" THEN "ValueError" ELSE ty

\* mutant of StatusFatal: any 2xx status accepted
StatusFatalNon2xx(sc) == sc < 200 \/ sc >= 300

\* response.status_code != 200 (lines 351 and 677)
StatusFatal(sc) == sc # 200

\* mutant of OnNewToken: the token reported twice
OnNewTokenTwice(log, rm, text) == IF rm THEN Append(Append(log, text), text) ELSE log

\* run_manager.on_llm_new_token(chunk.text) when a run_manager was given
OnNewToken(log, rm, text) == IF rm THEN Append(log, text) ELSE log

\* mutant of Accumulate: `=` for `+=`
AccumulateLast(acc, text) == text

\* completion += chunk.text
Accumulate(acc, text) == acc \o text

\* mutant of PropagateRaise: the text gathered so far returned on failure
ReturnPartial(ret, acc) == [set |-> TRUE, text |-> acc]

\* lines 530-535 and 760-763: nothing catches an exception raised while the loop
\* of the buffered call runs, so the call leaves without a return value
PropagateRaise(ret, acc) == ret

\* the caller invokes _call or _stream with a stop list of `stops` and a prompt;
\* only SambaNovaCloud looks into the prompt, so it alone gets those of `prompts`
StartCallWith(stops, prompts) ==
    /\ pc \in {"idle", "ended", "failed"} /\ calls < MaxCalls
    /\ mode' \in {"call", "stream"}
    /\ stop' \in stops
    /\ prompt' \in IF client = "SambaNovaCloud" THEN prompts ELSE {PlainPrompt}
    /\ run_manager' \in BOOLEAN
    /\ calls' = calls + 1
    /\ pc' = "request"
    /\ tuning_params' = EmptyDict /\ request' = NoRequest /\ status_code' = 0
    /\ trace' = <<>> /\ chunk' = "" /\ callbacks' = <<>> /\ delivered' = <<>>
    /\ body' = NoBody /\ completion' = "" /\ returned' = NotReturned /\ error' = NoError
    /\ UNCHANGED <<config, model_kwargs, sessions, posts>>

\* a call without call-time stop
StartCall == StartCallWith({<<>>}, {PlainPrompt})

\* a call with any of the stop lists and prompts
StartCallAnyStop == StartCallWith(StopArgs, Prompts)

\* http_session = requests.Session() (lines 342 and 652): a new session
OpenSession(n) == n + 1

\* what http_session.post does: raise a transport error, or return a response
PostOutcomes ==
    {[raised |-> TRUE, status |-> 0]} \cup {[raised |-> FALSE, status |-> sc] : sc \in StatusCodes}

\* whether the call takes the streaming path (lines 506 and 528-537)
UsesStream == mode = "stream" \/ streaming \/ client = "SambaNovaCloud"

\* mutant of PostUrl: every request posted to the base URL
PostUrlBaseOnly(streaming_, base, stream) == base

\* lines 342-349: the URL http_session.post is given
PostUrl(streaming_, base, stream) == IF streaming_ THEN stream ELSE base

\* SambaStudio._handle_request
HandleRequest ==
    /\ pc = "request" /\ client = "SambaStudio"
    /\ LET r == GetTuningParams(sambastudio_url, model_kwargs, stop)
       IN  /\ model_kwargs' = r.kwargs
           /\ tuning_params' = r.params
           /\ IF r.raised
              THEN /\ pc' = "failed"
                   /\ error' = Err("ValueError", "ValueError", "request")
                   /\ UNCHANGED <<request, status_code, sessions, posts>>
              ELSE /\ request' = [url |-> PostUrl(UsesStream, base_url, streaming_url),
                                  body |-> StudioBody(RequestVariant(sambastudio_url),
                                                      r.params, prompt.text, UsesStream)]
                   /\ sessions' = OpenSession(sessions)
                   /\ posts' = Append(posts, [call |-> calls, session |-> sessions'])
                   /\ \E out \in PostOutcomes :
                        /\ status_code' = out.status
                        /\ IF out.raised
                           THEN /\ pc' = "failed"
                                /\ error' = Err("ConnectionError", "ConnectionError",
                                                "transport")
                           ELSE IF StatusFatal(out.status)
                           THEN /\ pc' = "failed"
                                /\ error' = Err("RuntimeError", "RuntimeError", "status")
                           ELSE /\ pc' = IF UsesStream THEN "decoding" ELSE "response"
                                /\ error' = NoError
    /\ UNCHANGED <<config, calls, mode, stop, prompt, run_manager, trace, chunk, callbacks,
                   delivered, body, completion, returned>>

\* SambaNovaCloud._handle_nlp_predict_stream up to the event loop (lines 647-680)
CloudRequest ==
    /\ pc = "request" /\ client = "SambaNovaCloud"
    /\ request' = [url |-> NoUrl, body |-> CloudBody(stop, stop_tokens, stream_api, prompt)]
    /\ sessions' = OpenSession(sessions)
    /\ posts' = Append(posts, [call |-> calls, session |-> sessions'])
    /\ \E out \in PostOutcomes :
         /\ status_code' = out.status
         /\ IF out.raised
            THEN /\ pc' = "failed"
                 /\ error' = Err(Surfaced("ConnectionError"), "ConnectionError", "transport")
            ELSE IF StatusFatal(out.status)
            THEN /\ pc' = "failed"
                 /\ error' = Err(Surfaced("RuntimeError"), "RuntimeError", "status")
            ELSE /\ pc' = "decoding"
                 /\ error' = NoError
    /\ UNCHANGED <<config, model_kwargs, calls, mode, stop, prompt, run_manager, tuning_params,
                   trace, chunk, callbacks, delivered, body, completion, returned>>

\* one iteration of the decoder loop on the next event or line of the response
ReadEvent ==
    /\ pc = "decoding" /\ Len(trace) < MaxEvents
    /\ \E e \in EventsFor(Proto) :
         LET o == Decode(StreamProto, e)
         IN  /\ trace' = Append(trace, e)
             /\ chunk' = o.text
             /\ pc' = CASE o.act = "yield" -> "callback"
                        [] o.act = "skip" -> "decoding"
                        [] OTHER -> "failed"
             /\ error' = IF o.act = "raise" THEN Err(Surfaced(o.type), o.type, "decode")
                         ELSE NoError
             /\ returned' = IF o.act = "raise" /\ mode = "call"
                            THEN PropagateRaise(returned, completion) ELSE returned
    /\ UNCHANGED <<config, model_kwargs, calls, sessions, posts, mode, stop, prompt, run_manager,
                   tuning_params, request, status_code, callbacks, delivered, body, completion>>

\* _stream, between receiving a chunk from the decoder and yielding it
Callback ==
    /\ pc = "callback"
    /\ callbacks' = OnNewToken(callbacks, run_manager, chunk)
    /\ pc' = "yield"
    /\ UNCHANGED <<config, model_kwargs, calls, sessions, posts, mode, stop, prompt, run_manager,
                   tuning_params, request, status_code, trace, chunk, delivered, body,
                   completion, returned, error>>

\* _stream yields the chunk; the loop of the buffered call appends its text
YieldChunk ==
    /\ pc = "yield"
    /\ delivered' = Append(delivered, chunk)
    /\ completion' = IF mode = "call" THEN Accumulate(completion, chunk) ELSE completion
    /\ pc' = "decoding"
    /\ UNCHANGED <<config, model_kwargs, calls, sessions, posts, mode, stop, prompt, run_manager,
                   tuning_params, request, status_code, trace, chunk, callbacks, body,
                   returned, error>>

\* the response has no further event: the generator ends, the buffered call returns
EndOfStream ==
    /\ pc = "decoding"
    /\ returned' = IF mode = "call" THEN Returned(completion) ELSE returned
    /\ pc' = "ended"
    /\ UNCHANGED <<config, model_kwargs, calls, sessions, posts, mode, stop, prompt, run_manager,
                   tuning_params, request, status_code, trace, chunk, callbacks, delivered, body,
                   completion, error>>

\* SambaStudio._call lines 537-539 after a successful non-streaming request
ReadResponse ==
    /\ pc = "response"
    /\ body' \in Bodies
    /\ LET r == ProcessResponse(ResponseVariant(sambastudio_url), body')
       IN  IF r.type = ""
           THEN /\ returned' = Returned(r.completion)
                /\ completion' = r.completion
                /\ pc' = "ended"
                /\ error' = NoError
           ELSE /\ pc' = "failed"
                /\ error' = Err(r.type, r.type, "response")
                /\ UNCHANGED <<returned, completion>>
    /\ UNCHANGED <<config, model_kwargs, calls, sessions, posts, mode, stop, prompt, run_manager,
                   tuning_params, request, status_code, trace, chunk, callbacks, delivered>>

Next ==
    \/ Construct
    \/ StartCall
    \/ HandleRequest
    \/ CloudRequest
    \/ ReadEvent
    \/ Callback
    \/ YieldChunk
    \/ EndOfStream
    \/ ReadResponse

Spec == Init /\ [][Next]_vars

NextMap == Construct \/ TuningCall

SpecMap == InitMap /\ [][NextMap]_vars

SpecUrl == InitUrl /\ [][NextMap]_vars

\* requests over every parameter bag and stop list, with responses that carry no
\* event
InitReq ==
    /\ \/ InitStudio(VariantUrls, KwargsBags, BOOLEAN)
       \/ InitCloudWith(BOOLEAN)
    /\ InitRest

NextReq ==
    \/ Construct
    \/ StartCallAnyStop
    \/ HandleRequest
    \/ CloudRequest
    \/ EndOfStream
    \/ ReadResponse

SpecReq == InitReq /\ [][NextReq]_vars

(***************************************************************************)
(* Claims about parameter mapping and URL classification.                  *)
(***************************************************************************)
\* the stop list configured at construction followed by the call's stop list
ConfiguredThenCall == DictGet(configured, "stop_sequences", PyList(<<>>)).l \o stop

\* a call of _get_tuning_params has returned
TuningReturned == pc = "idle" /\ mode = "params" /\ error = NoError

\* C1: on every call of _get_tuning_params, the first and any later one, the
\* stop_sequences entry of the result is the list configured at construction
\* followed by the stop list of this call (enveloped for generic v1).
C1_StopIsConfiguredThenCall ==
    (TuningReturned /\ ConfiguredThenCall # <<>>)
        => /\ Has(tuning_params, "stop_sequences")
           /\ tuning_params["stop_sequences"]
                = IF Proto = "generic_v1" THEN Envelope(PyList(ConfiguredThenCall))
                  ELSE PyList(ConfiguredThenCall)

\* C2: _get_tuning_params leaves the client's model_kwargs as configured: same
\* keys, same values, same stop_sequences list.
C2_ModelKwargsUnchanged == model_kwargs = configured

\* C10: a client is constructed only with a URL of one of the three recognised
\* protocol shapes, so no constructed client fails later with "Unsupported URL".
C10_UnsupportedUrlFailsAtConstruction ==
    pc = "idle" => (Variant(sambastudio_url) # "unsupported" /\ error.type # "ValueError")

(***************************************************************************)
(* Claims about the streaming call.                                        *)
(***************************************************************************)
SSE == Proto \in {"openai", "cloud"}

\* the last event read, and the events before it
LastEvent == trace[Len(trace)]
DoneAmong(n) == \E i \in 1..n : trace[i].data.raw = "[DONE]"

\* the decoder has just handled LastEvent: by yielding, by raising or by skipping
JustYielded == pc = "callback"
JustRaised == pc = "failed" /\ error.at = "decode"

\* C3: in both SSE decoders, once "[DONE]" has been read the decoder is
\* terminated: that event yields no delta, and no event after it yields a delta
\* or raises an error.
C3_DoneTerminates ==
    (SSE /\ trace # <<>>)
        => /\ JustYielded => ~DoneAmong(Len(trace))
           /\ JustRaised => ~DoneAmong(Len(trace) - 1)

\* C4: in both SSE decoders an event of kind error_event fails the stream at that
\* event whatever its data is: no delta for it, and no event is read after it.
C4_ErrorEventIsTerminal ==
    SSE => \A i \in 1..Len(trace) :
               trace[i].event = "error_event" => (i = Len(trace) /\ JustRaised)

\* the deltas a decoder yields for a sequence of events, up to the first raise
RECURSIVE StreamDeltas(_, _)
StreamDeltas(v, events) ==
    IF events = <<>> THEN <<>>
    ELSE LET o == Decode(v, Head(events))
         IN  IF o.act = "raise" THEN <<>>
             ELSE IF o.act = "yield" THEN <<o.text>> \o StreamDeltas(v, Tail(events))
             ELSE StreamDeltas(v, Tail(events))

RECURSIVE Concat(_)
Concat(texts) == IF texts = <<>> THEN "" ELSE Head(texts) \o Concat(Tail(texts))

\* the deltas decoded so far in this call, the one in hand included
Decoded == IF pc \in {"callback", "yield"} THEN Append(delivered, chunk) ELSE delivered

OnlyMessages == \A i \in 1..Len(trace) : trace[i].event = "message"

\* the condition C5 gives for an event to yield a delta
C5Condition(e) ==
    /\ e.data.raw # "[DONE]"
    /\ e.data.error # "truthy"
    /\ e.data.usage # "stats"
    /\ e.data.finish_reason = "null"

RECURSIVE C5Deltas(_)
C5Deltas(events) ==
    IF events = <<>> THEN <<>>
    ELSE IF C5Condition(Head(events))
         THEN <<Head(events).data.content>> \o C5Deltas(Tail(events))
         ELSE C5Deltas(Tail(events))

\* C5 as stated: for the cloud decoder and non-error events, the deltas are
\* exactly the choices[0].delta.content of the events that are not "[DONE]", have
\* no top-level error, no usage and a null finish_reason, in event order.
C5_CloudDeltaIffCondition ==
    (Proto = "cloud" /\ pc \in {"decoding", "callback", "yield", "ended", "failed"}
       /\ OnlyMessages)
        => Decoded = C5Deltas(trace)

\* the condition the code adds: the first choice carries delta.content
C5AmendedCondition(e) == C5Condition(e) /\ e.data.content # NoKey

RECURSIVE C5AmendedDeltas(_)
C5AmendedDeltas(events) ==
    IF events = <<>> THEN <<>>
    ELSE IF C5AmendedCondition(Head(events))
         THEN <<Head(events).data.content>> \o C5AmendedDeltas(Tail(events))
         ELSE C5AmendedDeltas(Tail(events))

\* C5 amended: as C5, for the events whose first choice carries delta.content;
\* an event that meets the four conditions without delta.content yields nothing
\* and fails the stream.
C5_CloudDeltaIffConditionAndContent ==
    (Proto = "cloud" /\ pc \in {"decoding", "callback", "yield", "ended", "failed"}
       /\ OnlyMessages)
        => /\ Decoded = C5AmendedDeltas(trace)
           /\ (trace # <<>> /\ C5Condition(LastEvent) /\ LastEvent.data.content = NoKey)
                 => JustRaised

ExampleTrace ==
    <<Message(ContentChunk("Hi")), Message(ContentChunk(" there")), Message(UsageChunk),
      Message(DONE)>>

C5_Witness ==
    /\ Proto = "cloud" /\ pc = "ended" /\ error = NoError
    /\ trace = ExampleTrace
    /\ delivered = <<"Hi", " there">>

\* the call took the streaming path and is past its request
Streamed == UsesStream /\ pc \in {"decoding", "callback", "yield", "ended", "failed"}

\* C6: for a trace that ends without failure, _stream delivers the deltas of the
\* trace in order and the buffered call returns their concatenation.
C6_BufferedIsConcatOfStream ==
    (Streamed /\ pc = "ended")
        => /\ delivered = StreamDeltas(Proto, trace)
           /\ mode = "call" =>
                (returned.set /\ returned.text = Concat(StreamDeltas(Proto, trace)))

C6_Witness ==
    /\ Streamed /\ pc = "ended" /\ mode = "call"
    /\ Len(delivered) = 2 /\ returned = Returned("Hi there")

\* C7: the buffered call returns a string only when the stream reached its end
\* without failure; when the stream fails after k >= 0 deltas the call raises and
\* returns nothing.
C7_NoPartialText ==
    mode = "call"
        => /\ returned.set => (pc = "ended" /\ error = NoError)
           /\ pc = "failed" => (~returned.set /\ error.type # "")

C7_Witness ==
    /\ mode = "call" /\ Streamed /\ JustRaised
    /\ Len(delivered) >= 1 /\ completion # "" /\ ~returned.set

\* C8: with a run_manager, on_llm_new_token is called once per decoded delta with
\* its text, in order: for the delta in hand before it is yielded, and for every
\* earlier delta before the next event is decoded.
C8_CallbackOncePerDeltaInOrder ==
    (Streamed /\ run_manager)
        => /\ Decoded = StreamDeltas(Proto, trace)
           /\ pc = "callback" => callbacks = delivered
           /\ pc = "yield" => callbacks = Append(delivered, chunk)
           /\ pc \in {"decoding", "ended", "failed"} => callbacks = delivered

C8_Witness ==
    /\ Streamed /\ run_manager /\ mode = "call" /\ pc = "yield"
    /\ callbacks = <<"Hi", " there">> /\ delivered = <<"Hi">>

\* C9: a response whose status is not 200 fails the call before any decoding: no
\* event, line or body is decoded, no delta is yielded, no callback is made.
C9_Non200IsFatalBeforeDecoding ==
    (status_code # 0 /\ status_code # 200)
        => /\ pc = "failed" /\ error.type # "" /\ error.at = "status"
           /\ trace = <<>> /\ body = NoBody
           /\ delivered = <<>> /\ callbacks = <<>> /\ ~returned.set

C9_Witness ==
    /\ status_code = 204 /\ pc = "failed" /\ run_manager
    /\ request # NoRequest

(***************************************************************************)
(* Claims about the URL pair.                                              *)
(***************************************************************************)
\* the first position of the path segment seg in url
FirstSegment(url, seg) ==
    CHOOSE i \in 1..Len(url) : url[i] = seg /\ \A j \in 1..(i - 1) : url[j] # seg

\* url without the segment at position i and the slash that goes with it
WithoutSegment(url, i) ==
    IF i < Len(url) /\ url[i + 1] = "/"
    THEN SubSeq(url, 1, i - 1) \o SubSeq(url, i + 2, Len(url))
    ELSE SubSeq(url, 1, i - 2) \o SubSeq(url, i + 1, Len(url))

\* url with the segment seg inserted right after the segment at position i
WithSegmentAfter(url, i, seg) ==
    SubSeq(url, 1, i) \o <<"/", seg>> \o SubSeq(url, i + 1, Len(url))

Constructed == client = "SambaStudio" /\ pc \in {"idle", "rejected"}

\* C11: for a URL that is not of the OpenAI shape: if it has the streaming
\* sub-path, the streaming URL is the input and the base URL is the input without
\* that one segment; otherwise, if it has a "generic" segment, the base URL is the
\* input and the streaming URL is the input with the streaming sub-path inserted
\* once, right after that segment; any other URL is rejected.
C11_UrlPairDerivation ==
    (Constructed /\ ~Contains(OPENAI, sambastudio_url)) =>
        IF Contains(<<"stream">>, sambastudio_url)
        THEN /\ pc = "idle"
             /\ streaming_url = sambastudio_url
             /\ base_url = WithoutSegment(sambastudio_url,
                                          FirstSegment(sambastudio_url, "stream"))
        ELSE IF Contains(<<"generic">>, sambastudio_url)
        THEN /\ pc = "idle"
             /\ base_url = sambastudio_url
             /\ streaming_url = WithSegmentAfter(sambastudio_url,
                                                 FirstSegment(sambastudio_url, "generic"),
                                                 "stream")
        ELSE pc = "rejected"

(***************************************************************************)
(* Claims about the mapped parameters.                                     *)
(***************************************************************************)
\* the configured value that the generic rename puts under key k
ConfiguredFor(k) ==
    IF k = "select_expert" /\ Has(configured, "model") THEN configured["model"]
    ELSE IF k = "max_tokens_to_generate" /\ Has(configured, "max_tokens")
    THEN configured["max_tokens"]
    ELSE configured[k]

\* the stop list the call has merged
MergedStop ==
    IF Has(model_kwargs, "stop_sequences") THEN model_kwargs["stop_sequences"].l ELSE stop

\* C12: for GENERIC_V1 every value of the mapped parameters is an envelope of
\* exactly the two fields type and value, holding the name of the value's runtime
\* type and its string form; the merged stop_sequences list is enveloped too.
C12_V1EveryValueEnveloped ==
    (TuningReturned /\ Proto = "generic_v1") =>
        \A k \in DOMAIN tuning_params :
            LET e == tuning_params[k]
                v == IF k = "stop_sequences" THEN PyList(MergedStop) ELSE ConfiguredFor(k)
            IN  /\ DOMAIN e = {"type", "value"}
                /\ e.type = TypeName(v)
                /\ e.value = PyStrOf(v)

C12_Witness ==
    /\ TuningReturned /\ Proto = "generic_v1" /\ stop # <<>>
    /\ {"stop_sequences", "process_prompt", "temperature", "select_expert"}
           \subseteq DOMAIN tuning_params
    /\ tuning_params["stop_sequences"].type = "list"

\* C13: when the final stop list, the configured one followed by the call's, is
\* empty, the mapped parameters have no stop_sequences entry at all, whatever the
\* variant; this includes an explicitly configured empty list and no call-time stop.
C13_EmptyStopIsOmitted ==
    (TuningReturned /\ ConfiguredThenCall = <<>>) => ~Has(tuning_params, "stop_sequences")

(***************************************************************************)
(* Claims about the request.                                               *)
(***************************************************************************)
\* the call has built its request body and posted it
CloudPosted == Proto = "cloud" /\ request.body.kind = "cloud"

\* C14: every request body of the CLOUD client asks for streaming: its stream
\* field is true and it has a stream_options field, however the client is
\* configured.
C14_CloudBodyAlwaysStreams ==
    CloudPosted =>
        /\ request.body.stream = TRUE
        /\ "stream_options" \in DOMAIN request.body

\* C15: the CLOUD client sends as stop the configured stop_tokens followed by the
\* stop sequences of the call: call-time stops are appended, never substituted.
C15_CloudStopAppended ==
    CloudPosted => request.body.params["stop"] = PyList(stop_tokens \o stop)

\* a generic client has built its request body and posted it
GenericPosted ==
    /\ Proto \in {"generic_v2", "generic_v1"}
    /\ request.body.kind \in {"items", "instance", "instances"}

\* process_prompt was configured true
ProcessPromptTrue ==
    Has(configured, "process_prompt") /\ configured["process_prompt"] = PyBool(TRUE)

\* the form of a true process_prompt in the mapped parameters of the variant
ProcessPromptKeyed ==
    /\ Has(tuning_params, "process_prompt")
    /\ IF Proto = "generic_v2"
       THEN tuning_params["process_prompt"] = PyBool(TRUE)
       ELSE tuning_params["process_prompt"] = [type |-> "bool", value |-> "True"]

\* C16: for the generic variants the prompt sent is the conversation JSON exactly
\* when process_prompt is true, and the raw prompt otherwise (also when the
\* parameter is absent); GENERIC_V2 reads the plain boolean, GENERIC_V1 the value
\* "True" inside the envelope.
C16_PromptWrappedIffProcessPrompt ==
    GenericPosted =>
        /\ request.body.prompt = IF ProcessPromptTrue THEN ConversationPrompt("prompt")
                                 ELSE RawPrompt("prompt")
        /\ ProcessPromptTrue <=> ProcessPromptKeyed

C16_Witness ==
    /\ GenericPosted /\ Proto = "generic_v1" /\ calls = MaxCalls
    /\ Has(tuning_params, "process_prompt")
    /\ tuning_params["process_prompt"] = [type |-> "bool", value |-> "True"]
    /\ request.body.prompt = ConversationPrompt("prompt")

(***************************************************************************)
(* Claims about the newline-delimited decoders and the outcome of a call.  *)
(***************************************************************************)
LineDelimited == Proto \in {"generic_v2", "generic_v1"}

\* the line is JSON of the shape the variant expects
WellFormed(v, e) ==
    e.data.raw = "json" /\ e.data.shape = (IF v = "generic_v2" THEN "v2" ELSE "v1")

\* one delta per well-formed line, none for an empty line, nothing from the first
\* other line on
RECURSIVE C17Deltas(_, _)
C17Deltas(v, events) ==
    IF events = <<>> THEN <<>>
    ELSE IF Head(events).data.raw = "" THEN C17Deltas(v, Tail(events))
    ELSE IF WellFormed(v, Head(events))
    THEN <<Head(events).data.token>> \o C17Deltas(v, Tail(events))
    ELSE <<>>

\* C17: the newline-delimited decoders yield exactly one delta per non-empty
\* well-formed line, in line order; an empty line yields no delta and does not
\* fail the stream; the first line that does not parse or has another shape fails
\* the stream, with no delta for it or for any later line.
C17_LineDecoders ==
    (LineDelimited /\ trace # <<>>) =>
        /\ Decoded = C17Deltas(Proto, trace)
        /\ JustRaised <=> (LastEvent.data.raw # "" /\ ~WellFormed(Proto, LastEvent))

\* C18: a transport failure of the POST (connection error, timeout) reaches the
\* caller as the error the transport raised, not wrapped in another one, in the
\* buffered and the streaming call of both clients.
C18_TransportErrorPassesThrough ==
    (pc = "failed" /\ error.at = "transport") => error.type = error.origin

\* the streaming call has failed while decoding the last event read
StreamFailed == mode = "stream" /\ JustRaised

\* the two terminal outcomes, and what the consumer holds when the call fails
C19Outcomes ==
    /\ pc = "ended" => error = NoError
    /\ pc = "failed" => error.type # ""
    /\ StreamFailed =>
         /\ trace # <<>>
         /\ Decode(Proto, LastEvent).act = "raise"
         /\ delivered = StreamDeltas(Proto, SubSeq(trace, 1, Len(trace) - 1))

\* within one call: the step that fails it takes no delta back and delivers none,
\* and nothing changes once the call has ended or failed
C19Terminal ==
    calls' = calls =>
        /\ pc' = "failed" => delivered' = delivered
        /\ pc \in {"ended", "failed"} => UNCHANGED <<pc, error, delivered, returned>>

\* C19: a streaming call has two distinct terminal outcomes: it ends, with no
\* error, or it fails, with an error; a call that fails at an event has delivered
\* exactly the deltas of the events before it, they are not retracted and nothing
\* is delivered afterwards; no call both ends normally and reports a failure.
C19_EndsOrFailsNeverBoth == [](C19Outcomes) /\ [][C19Terminal]_vars

C19_Witness ==
    /\ StreamFailed /\ Len(trace) = 3
    /\ delivered = <<"Hi", " there">>

(***************************************************************************)
(* Claims about the HTTP session.                                          *)
(***************************************************************************)
\* the POSTs issued by call number c
PostsOf(c) == {i \in 1..Len(posts) : posts[i].call = c}

\* the current call is over, with a result or with an error
CallOver == pc \in {"ended", "failed"}

\* every session opened carries one POST, and no two POSTs share a session or a call
FreshSessions ==
    /\ sessions = Len(posts)
    /\ \A i, j \in 1..Len(posts) :
         i # j => (posts[i].session # posts[j].session /\ posts[i].call # posts[j].call)

\* C20: every completion call opens exactly one new HTTP session and issues
\* exactly one POST on it; no session serves two calls and no POST is repeated.
C20_OneSessionOnePostPerCall ==
    /\ FreshSessions
    /\ CallOver => Cardinality(PostsOf(calls)) = 1

(***************************************************************************)
(* Claims about the parameter names and the values sent.                   *)
(***************************************************************************)
\* the keys of one configured parameter, whichever spelling was used
Spelled(keys) == {k \in keys : Has(configured, k)}

\* the mapped parameters hold the parameter configured under one of `keys` under
\* the key `name` and under no other key of `keys`
NamedOnly(name, keys) ==
    /\ \A k \in keys \ {name} : ~Has(tuning_params, k)
    /\ Has(tuning_params, name) <=> Spelled(keys) # {}
    /\ \A k \in Spelled(keys) :
         tuning_params[name] = IF Proto = "generic_v1" THEN Envelope(configured[k])
                               ELSE configured[k]

ModelKeys == {"model", "select_expert"}
CapKeys == {"max_tokens", "max_tokens_to_generate"}
RenamedKeys == ModelKeys \cup CapKeys \cup {"process_prompt", "stop_sequences"}

\* C21: for OPENAI_COMPATIBLE the mapped parameters have the model under model
\* and the cap under max_tokens, never under the other spelling, have no
\* process_prompt, and every other configured field with its configured value;
\* for both generic variants the model is under select_expert and the cap under
\* max_tokens_to_generate only; whichever spelling was configured.
C21_RenamesPerVariant ==
    TuningReturned =>
        IF Proto = "openai"
        THEN /\ NamedOnly("model", ModelKeys)
             /\ NamedOnly("max_tokens", CapKeys)
             /\ ~Has(tuning_params, "process_prompt")
             /\ \A k \in DOMAIN configured \ RenamedKeys :
                  Has(tuning_params, k) /\ tuning_params[k] = configured[k]
             /\ DOMAIN tuning_params \ RenamedKeys = DOMAIN configured \ RenamedKeys
        ELSE /\ NamedOnly("select_expert", ModelKeys)
             /\ NamedOnly("max_tokens_to_generate", CapKeys)

C21_Witness ==
    /\ TuningReturned /\ calls = MaxCalls
    /\ \/ /\ Proto = "openai"
          /\ {"select_expert", "max_tokens_to_generate", "process_prompt", "temperature"}
                \subseteq DOMAIN configured
          /\ {"model", "max_tokens", "temperature"} \subseteq DOMAIN tuning_params
       \/ /\ Proto = "generic_v2"
          /\ {"model", "max_tokens"} \subseteq DOMAIN configured
          /\ {"select_expert", "max_tokens_to_generate"} \subseteq DOMAIN tuning_params

(***************************************************************************)
(* Claims about the OpenAI-compatible stream decoder.                      *)
(***************************************************************************)
\* a chat chunk: a message event, not "[DONE]", that parses, has no error and has
\* a choices list
ChatChunk(e) ==
    /\ e.event = "message"
    /\ e.data.raw = "json"
    /\ e.data.error # "truthy"
    /\ e.data.choices # "absent"

OnlyChatChunks == \A i \in 1..Len(trace) : ChatChunk(trace[i])

\* the first choice of the chunk has no delta content
NoDeltaContent(e) == e.data.choices = "one" /\ e.data.content = NoKey

\* one delta per chunk, "" for an empty choices list, up to the first chunk without
\* delta content
RECURSIVE C22Deltas(_)
C22Deltas(events) ==
    IF events = <<>> THEN <<>>
    ELSE IF NoDeltaContent(Head(events)) THEN <<>>
    ELSE <<IF Head(events).data.choices = "empty" THEN "" ELSE Head(events).data.content>>
         \o C22Deltas(Tail(events))

\* C22: in the OPENAI_COMPATIBLE decoder every event that is neither the sentinel
\* nor an error yields exactly one delta, choices[0].delta.content for a non-empty
\* choices list and "" for an empty one; a chunk whose first choice has no delta
\* content yields no delta and fails the stream.
C22_OpenAIOneDeltaPerChunk ==
    (Proto = "openai" /\ trace # <<>> /\ OnlyChatChunks) =>
        /\ Decoded = C22Deltas(trace)
        /\ JustRaised <=> NoDeltaContent(LastEvent)
        /\ ~JustRaised => Len(Decoded) = Len(trace)

C22_Witness ==
    /\ Proto = "openai" /\ OnlyChatChunks /\ Len(trace) = 3
    /\ trace[2].data.choices = "empty"
    /\ JustRaised
    /\ delivered = <<"Hi", "">>

(***************************************************************************)
(* Claims about the URL and the body of a SambaStudio request.             *)
(***************************************************************************)
\* a SambaStudio call has built its request and posted it
StudioPosted == client = "SambaStudio" /\ request.body.kind \notin {"none", "cloud"}

\* the response is being read as a stream, or as one buffered body
StreamingRead == pc \in {"decoding", "callback", "yield"}
BufferedRead == pc = "response"

RoleContent(m) == DOMAIN m = {"role", "content"}

\* C24: the cloud client sends as messages the parsed prompt when the prompt
\* parses as JSON and the single user message [{role: "user", content: prompt}]
\* otherwise, so the messages of every request body are a list of role/content
\* messages.
C24_CloudMessagesAreAMessageList ==
    CloudPosted =>
        LET m == request.body.messages
        IN  /\ IF prompt.parsed.ok
               THEN m = [kind |-> prompt.parsed.kind, items |-> prompt.parsed.items]
               ELSE m = [kind |-> "array", items |-> <<UserMessage(prompt.text)>>]
            /\ m.kind = "array"
            /\ \A i \in 1..Len(m.items) : RoleContent(m.items[i])

(***************************************************************************)
(* Claims about the variant each stage selects.                            *)
(***************************************************************************)
\* the variant a request body was built for, and the variant a streamed payload
\* or a response body has the shape of
KindVariant(kind) ==
    CASE kind = "openai" -> "openai"
      [] kind = "items" -> "generic_v2"
      [] OTHER -> "generic_v1"

ShapeVariant(shape) ==
    CASE shape = "chat" -> "openai"
      [] shape = "v2" -> "generic_v2"
      [] shape = "v1" -> "generic_v1"
      [] OTHER -> shape

StagesAgree(url) ==
    /\ TuningVariant(url) = RequestVariant(url)
    /\ RequestVariant(url) = ResponseVariant(url)
    /\ ResponseVariant(url) = StreamVariant(url)

\* C25: within one call every stage of a SambaStudio client selects the same
\* variant for the configured URL, also for a URL with the marks of several
\* variants: the parameters are in the form of the variant the request body was
\* built for, and a streamed payload or a response body is accepted only in the
\* shape of that variant.
C25_StagesSelectSameVariant ==
    client = "SambaStudio" =>
        /\ StagesAgree(sambastudio_url)
        /\ StudioPosted =>
             LET v == KindVariant(request.body.kind)
             IN  /\ \A k \in DOMAIN tuning_params :
                      (DOMAIN tuning_params[k] = {"type", "value"}) <=> v = "generic_v1"
                 /\ pc \in {"callback", "yield"} => ShapeVariant(LastEvent.data.shape) = v
                 /\ (pc = "ended" /\ ~UsesStream) => ShapeVariant(body.shape) = v

C25_Witness ==
    /\ client = "SambaStudio" /\ sambastudio_url = UrlV2AndV1
    /\ pc = "yield" /\ request.body.kind = "items"
    /\ LastEvent.data.shape = "v2"

(***************************************************************************)
(* Claims about configuring a client with a derived URL.                   *)
(***************************************************************************)
\* a generic URL in base form: not OpenAI-compatible, without the streaming
\* sub-path, with a "generic" segment
BaseForm(url) ==
    /\ ~Contains(OPENAI, url)
    /\ ~Contains(<<"stream">>, url)
    /\ Contains(<<"generic">>, url)

\* C26: when a client configured with a generic URL in base form has the pair
\* (base_url, streaming_url), a client configured with that streaming_url has
\* the same pair, also when the URL ends in the "generic" segment.
C26_DerivedUrlGivesSamePair ==
    (Constructed /\ pc = "idle" /\ BaseForm(sambastudio_url)) =>
        GetSambastudioUrls(streaming_url)
            = [ok |-> TRUE, base_url |-> base_url, stream_url |-> streaming_url]

(***************************************************************************)
(* Claims about null-valued parameters.                                    *)
(***************************************************************************)
\* x is null, plain or in a GENERIC_V1 envelope
NullSent(x) ==
    IF DOMAIN x = {"type", "value"} THEN x.type = "NoneType" ELSE x.tag = "NoneType"

\* the keys of the mapped parameters whose value is not null
NonNullKeys == {k \in DOMAIN tuning_params : ~NullSent(tuning_params[k])}

\* C27 as stated: no null-valued parameter is sent, by any SambaStudio variant;
\* for GENERIC_V1 a parameter configured as null is not in params, not even as
\* the envelope {type: "NoneType", value: "None"}.
C27_NullNeverSent ==
    StudioPosted =>
        \A k \in DOMAIN request.body.params : ~NullSent(request.body.params[k])

\* C27 amended: OPENAI_COMPATIBLE and GENERIC_V2 send exactly the mapped
\* parameters that are not null; GENERIC_V1 sends every mapped parameter, a null
\* one as the envelope {type: "NoneType", value: "None"}.
C27_NullDroppedExceptV1 ==
    StudioPosted =>
        IF Proto = "generic_v1"
        THEN /\ request.body.params = tuning_params
             /\ \A k \in DOMAIN configured :
                  configured[k] = PyNone =>
                      /\ Has(request.body.params, k)
                      /\ request.body.params[k] = [type |-> "NoneType", value |-> "None"]
        ELSE /\ DOMAIN request.body.params = NonNullKeys
             /\ \A k \in NonNullKeys : request.body.params[k] = tuning_params[k]

C27_Witness ==
    /\ StudioPosted /\ Proto = "generic_v1"
    /\ Has(configured, "temperature") /\ configured["temperature"] = PyNone
    /\ Has(configured, "model")
    /\ request.body.params["temperature"] = [type |-> "NoneType", value |-> "None"]

====
